---- MODULE Spec2Model ----
(***************************************************************************)
(* Viewport model of the pan/zoom canvases (PanExample, ZoomableCanvas).   *)
(*                                                                         *)
(* Numbers of the program are JavaScript numbers.  They are modelled as    *)
(* exact rationals <<n, d>> in lowest terms with d > 0: every operation    *)
(* (+, -, *, /, Math.min, Math.max) is computed exactly, so an equation    *)
(* checked here is an equation of real arithmetic; the rounding of IEEE    *)
(* doubles is not modelled.                                                *)
(*                                                                         *)
(* A React function component keeps its state in hooks.  A handler reads   *)
(* the state through the closure of the render that created it (rZoom,     *)
(* rPosition below) and queues updates; the next render applies them and   *)
(* runs the effects whose dependencies changed.                            *)
(***************************************************************************)
EXTENDS Integers, Sequences, FiniteSets, TLC

----------------------------------------------------------------------------
(* Exact rational arithmetic *)

Abs(n) == IF n < 0 THEN -n ELSE n

RECURSIVE GCD(_, _)
GCD(a, b) == IF b = 0 THEN a ELSE GCD(b, a % b)

LCM(a, b) == (a \div GCD(a, b)) * b

\* n/d in lowest terms, d > 0
Norm(n, d) ==
  LET s == IF d < 0 THEN -1 ELSE 1
      g == GCD(Abs(n), Abs(d))
  IN  << (s * n) \div g, (s * d) \div g >>

I(n) == << n, 1 >>

RNeg(a) == << -a[1], a[2] >>

RAdd(a, b) ==
  LET l == LCM(a[2], b[2])
  IN  Norm(a[1] * (l \div a[2]) + b[1] * (l \div b[2]), l)

RSub(a, b) == RAdd(a, RNeg(b))

RMul(a, b) ==
  LET g1 == GCD(Abs(a[1]), b[2])
      g2 == GCD(Abs(b[1]), a[2])
  IN  << (a[1] \div g1) * (b[1] \div g2), (a[2] \div g2) * (b[2] \div g1) >>

\* a / b for b # 0 (the program never divides by 0: zoom >= MIN_ZOOM)
RDiv(a, b) == RMul(a, Norm(b[2], b[1]))

RLe(a, b) ==
  LET l == LCM(a[2], b[2])
  IN  a[1] * (l \div a[2]) <= b[1] * (l \div b[2])

RLt(a, b) == RLe(a, b) /\ a # b

\* Math.min, Math.max
RMin(a, b) == IF RLe(a, b) THEN a ELSE b
RMax(a, b) == IF RLe(a, b) THEN b ELSE a

\* Math.floor, Math.ceil
RFloor(a) == a[1] \div a[2]
RCeil(a) == -((-a[1]) \div a[2])

----------------------------------------------------------------------------
(* Constants of the component *)

MIN_ZOOM == Norm(3, 10)
MAX_ZOOM == Norm(18, 10)
ZOOM_STEP == Norm(5, 100)
SPACING == 50
BUFFER_FACTOR == Norm(15, 10)
WORLD_SIZE == 10000

WORLD_BOUNDS ==
  [left   |-> RDiv(I(-WORLD_SIZE), I(2)),
   right  |-> RDiv(I(WORLD_SIZE), I(2)),
   top    |-> RDiv(I(-WORLD_SIZE), I(2)),
   bottom |-> RDiv(I(WORLD_SIZE), I(2))]

----------------------------------------------------------------------------
(* Bounds of the model and the inputs it enumerates *)

\* events handled between two renders (React batches the updates of
\* continuous events such as wheel and pointer-move)
MaxPending == 2

\* input events (drag, wheel, click, resize) delivered in one run
MaxEvents == 4

\* largest denominator of a committed pan coordinate that is explored
MaxDen == 1000

\* the canvas component the page shows
Apps == { "PanExample", "DrawingApp" }

\* window.innerWidth x window.innerHeight; the container fills the window
WindowSizes == { << 800, 600 >>, << 3000, 2000 >> }

\* accumulated [dx, dy] of a ctrl-drag
DragDeltas == { << -6000, -6000 >>, << 6000, 6000 >> }

\* event.deltaY of a wheel notch
WheelDeltaY == { -100, 100 }

\* event.clientX, event.clientY of a wheel event over the container
Pointers(w) ==
  { << I(0), I(0) >>,
    << RDiv(I(w[1]), I(2)), RDiv(I(w[2]), I(2)) >>,
    << I(w[1]), I(w[2]) >> }

\* world points whose coordinates are mapped to the screen and back
WorldPoints == { << I(0), I(0) >>, << I(-120), I(75) >>, << Norm(1001, 3), I(-5000) >> }

----------------------------------------------------------------------------
(* State *)

VARIABLES
  app,         \* the component on the page
  mounted,     \* containerRef.current is set
  win,         \* << window.innerWidth, window.innerHeight >>
  position,    \* useState position: [x, y], with the queued updates applied
  zoom,        \* useState zoom, with the queued updates applied
  viewport,    \* useState viewport: [left, top, right, bottom] (PanExample)
  rPosition,   \* position as of the last render (what the closures read)
  rZoom,       \* zoom as of the last render (what the closures read)
  pending,     \* state updates queued since the last render
  events,      \* input events delivered so far
  probe,       \* the last call of a function under study: arguments, results
  tool,            \* DrawingApp: useState tool
  shapes,          \* DrawingApp: useState shapes, back to front
  selectedShapeId, \* DrawingApp: useState selectedShapeId, or null
  isDrawing,       \* DrawingApp: useState isDrawing
  uploads,         \* DrawingApp: image uploads whose img.onload has not run
  now,             \* Date.now() of the last shape created
  editorDocument,  \* Editor: editor.document, a sequence of blocks
  localStorage,    \* Editor: the browser's localStorage, key to string
  loading,         \* ExcelProcessor, WordProcessor: useState loading
  loads,           \* ExcelProcessor, WordProcessor: handler calls not yet settled
  content,         \* FileModal: useState content, or null
  editedContent,   \* FileModal: useState editedContent, or null
  isEditing,       \* FileModal: useState isEditing
  fileChanges      \* GithubRepoExplorer: useState fileChanges

canvasVars == << app, mounted, win, position, zoom, viewport, rPosition, rZoom,
                 pending, events, probe >>

drawingVars == << tool, shapes, selectedShapeId, isDrawing, uploads, now >>

editorVars == << editorDocument, localStorage >>

viewerVars == << loading, loads >>

modalVars == << content, editedContent, isEditing, fileChanges >>

vars == << canvasVars, drawingVars, editorVars, viewerVars, modalVars >>

\* containerRef.current.getBoundingClientRect(): the container is
\* "w-full h-full" inside a "fixed inset-0 h-screen w-screen" parent
\* (PanExample), "h-screen w-full" (DrawingApp)
getBoundingClientRect(w) ==
  [left |-> I(0), top |-> I(0), width |-> I(w[1]), height |-> I(w[2])]

----------------------------------------------------------------------------
(* Pure functions of the components *)

\* variant: the lower limit is not applied
newZoomOf_NoFloor(z, delta) == RMin(MAX_ZOOM, RAdd(z, delta))

\* Math.max(MIN_ZOOM, Math.min(MAX_ZOOM, zoom + delta))
newZoomOf(z, delta) == RMax(MIN_ZOOM, RMin(MAX_ZOOM, RAdd(z, delta)))

\* variant: the y range is computed from the container's width
clampPosition_HeightFromWidth(pos, containerWidth, containerHeight, z) ==
  LET scaledWidth  == RMul(I(WORLD_SIZE), z)
      scaledHeight == RMul(I(WORLD_SIZE), z)
      quarter      == RDiv(I(WORLD_SIZE), I(4))
  IN  [x |-> RMin(quarter,
                  RMax(RSub(RAdd(RNeg(scaledWidth), containerWidth), quarter),
                       pos.x)),
       y |-> RMin(quarter,
                  RMax(RSub(RAdd(RNeg(scaledHeight), containerWidth), quarter),
                       pos.y))]

\* variant: an axis whose range is empty is left unclamped
clampPosition_SkipEmptyRange(pos, containerWidth, containerHeight, z) ==
  LET scaledWidth  == RMul(I(WORLD_SIZE), z)
      scaledHeight == RMul(I(WORLD_SIZE), z)
      quarter      == RDiv(I(WORLD_SIZE), I(4))
      minX == RSub(RAdd(RNeg(scaledWidth), containerWidth), quarter)
      minY == RSub(RAdd(RNeg(scaledHeight), containerHeight), quarter)
  IN  [x |-> IF RLt(quarter, minX) THEN pos.x
             ELSE RMin(quarter, RMax(minX, pos.x)),
       y |-> IF RLt(quarter, minY) THEN pos.y
             ELSE RMin(quarter, RMax(minY, pos.y))]

\* variant: the y coordinate is clamped from pos.x
clampPosition_YFromX(pos, containerWidth, containerHeight, z) ==
  LET scaledWidth  == RMul(I(WORLD_SIZE), z)
      scaledHeight == RMul(I(WORLD_SIZE), z)
      quarter      == RDiv(I(WORLD_SIZE), I(4))
  IN  [x |-> RMin(quarter,
                  RMax(RSub(RAdd(RNeg(scaledWidth), containerWidth), quarter),
                       pos.x)),
       y |-> RMin(quarter,
                  RMax(RSub(RAdd(RNeg(scaledHeight), containerHeight), quarter),
                       pos.x))]

\* clampPosition; z is the zoom its useCallback closure captured
clampPosition(pos, containerWidth, containerHeight, z) ==
  LET scaledWidth  == RMul(I(WORLD_SIZE), z)
      scaledHeight == RMul(I(WORLD_SIZE), z)
      quarter      == RDiv(I(WORLD_SIZE), I(4))
  IN  [x |-> RMin(quarter,
                  RMax(RSub(RAdd(RNeg(scaledWidth), containerWidth), quarter),
                       pos.x)),
       y |-> RMin(quarter,
                  RMax(RSub(RAdd(RNeg(scaledHeight), containerHeight), quarter),
                       pos.y))]

\* variant: the buffer is the whole of (BUFFER_FACTOR - 1), not half of it
updateViewport_FullBuffer(pos, z, rect) ==
  LET viewportLeft   == RDiv(RNeg(pos.x), z)
      viewportTop    == RDiv(RNeg(pos.y), z)
      viewportRight  == RDiv(RSub(rect.width, pos.x), z)
      viewportBottom == RDiv(RSub(rect.height, pos.y), z)
      bufferX == RMul(RSub(viewportRight, viewportLeft), RSub(BUFFER_FACTOR, I(1)))
      bufferY == RMul(RSub(viewportBottom, viewportTop), RSub(BUFFER_FACTOR, I(1)))
  IN  [left   |-> RMax(WORLD_BOUNDS.left, RSub(viewportLeft, bufferX)),
       top    |-> RMax(WORLD_BOUNDS.top, RSub(viewportTop, bufferY)),
       right  |-> RMin(WORLD_BOUNDS.right, RAdd(viewportRight, bufferX)),
       bottom |-> RMin(WORLD_BOUNDS.bottom, RAdd(viewportBottom, bufferY))]

\* the rectangle updateViewport passes to setViewport
updateViewport(pos, z, rect) ==
  LET viewportLeft   == RDiv(RNeg(pos.x), z)
      viewportTop    == RDiv(RNeg(pos.y), z)
      viewportRight  == RDiv(RSub(rect.width, pos.x), z)
      viewportBottom == RDiv(RSub(rect.height, pos.y), z)
      bufferX == RDiv(RMul(RSub(viewportRight, viewportLeft),
                           RSub(BUFFER_FACTOR, I(1))), I(2))
      bufferY == RDiv(RMul(RSub(viewportBottom, viewportTop),
                           RSub(BUFFER_FACTOR, I(1))), I(2))
  IN  [left   |-> RMax(WORLD_BOUNDS.left, RSub(viewportLeft, bufferX)),
       top    |-> RMax(WORLD_BOUNDS.top, RSub(viewportTop, bufferY)),
       right  |-> RMin(WORLD_BOUNDS.right, RAdd(viewportRight, bufferX)),
       bottom |-> RMin(WORLD_BOUNDS.bottom, RAdd(viewportBottom, bufferY))]

\* the inner loop of points: for (let y = startY; y <= endY; y += SPACING)
RECURSIVE pointsLoopY(_, _, _, _)
pointsLoopY(x, y, endY, row) ==
  IF y <= endY
  THEN pointsLoopY(x, y + SPACING, endY, Append(row, [x |-> x, y |-> y]))
  ELSE row

\* the outer loop of points: for (let x = startX; x <= endX; x += SPACING)
RECURSIVE pointsLoopX(_, _, _, _, _)
pointsLoopX(x, endX, startY, endY, pointsArray) ==
  IF x <= endX
  THEN pointsLoopX(x + SPACING, endX, startY, endY,
                   pointsArray \o pointsLoopY(x, startY, endY, << >>))
  ELSE pointsArray

\* variant: the loops stop before endX, endY (x < endX; y < endY)
points_ExclusiveEnd(vp) ==
  LET startX == RFloor(RDiv(vp.left, I(SPACING))) * SPACING
      startY == RFloor(RDiv(vp.top, I(SPACING))) * SPACING
      endX == RCeil(RDiv(vp.right, I(SPACING))) * SPACING
      endY == RCeil(RDiv(vp.bottom, I(SPACING))) * SPACING
  IN  pointsLoopX(startX, endX - SPACING, startY, endY - SPACING, << >>)

\* variant: startX, startY are rounded up
points_StartFromCeil(vp) ==
  LET startX == RCeil(RDiv(vp.left, I(SPACING))) * SPACING
      startY == RCeil(RDiv(vp.top, I(SPACING))) * SPACING
      endX == RCeil(RDiv(vp.right, I(SPACING))) * SPACING
      endY == RCeil(RDiv(vp.bottom, I(SPACING))) * SPACING
  IN  pointsLoopX(startX, endX, startY, endY, << >>)

\* the points array the useMemo computes from the stored viewport
points(vp) ==
  LET startX == RFloor(RDiv(vp.left, I(SPACING))) * SPACING
      startY == RFloor(RDiv(vp.top, I(SPACING))) * SPACING
      endX == RCeil(RDiv(vp.right, I(SPACING))) * SPACING
      endY == RCeil(RDiv(vp.bottom, I(SPACING))) * SPACING
  IN  pointsLoopX(startX, endX, startY, endY, << >>)

\* disabled of the + button
zoomInDisabled(z) == RLe(MAX_ZOOM, z)

\* variant: the - button is disabled only below MIN_ZOOM (zoom < MIN_ZOOM)
zoomOutDisabled_Strict(z) == RLt(z, MIN_ZOOM)

\* disabled of the - button
zoomOutDisabled(z) == RLe(z, MIN_ZOOM)

\* PanExample's onDrag goes on past
\* if (event instanceof KeyboardEvent || !event.ctrlKey) return
onDragGate(isKeyboardEvent, ctrlKey) == ~(isKeyboardEvent \/ ~ctrlKey)

\* variant: the test is event.ctrlKey || down
DrawingApp_onDragGate_CtrlOrDown(ctrlKey, down) == ctrlKey \/ down

\* DrawingApp's onDrag goes on past if (!(event.ctrlKey && down)) return
DrawingApp_onDragGate(ctrlKey, down) == ~(~(ctrlKey /\ down))

\* onWheel, in both components, goes on past
\* if (!event.ctrlKey || !(event instanceof WheelEvent)) return
onWheelGate(ctrlKey, isWheelEvent) == ~(~ctrlKey \/ ~isWheelEvent)

\* variant: the handler does not test the ref
containerGate_NoTest(current) == TRUE

\* a handler goes on past if (!containerRef.current) return
\* (const container = containerRef.current; if (!container) return)
containerGate(current) == ~(~current)

Explored(pos) == pos.x[2] <= MaxDen /\ pos.y[2] <= MaxDen

\* variant: the anchor is window.innerWidth - rect.left,
\* window.innerHeight - rect.top (not halved)
handleZoom_AnchorAtCorner(delta, pos, z, w) ==
  LET rect == getBoundingClientRect(w)
      x == RSub(I(w[1]), rect.left)
      y == RSub(I(w[2]), rect.top)
      newZoom == newZoomOf(z, delta)
      zoomPoint == [x |-> RDiv(RSub(x, pos.x), z),
                    y |-> RDiv(RSub(y, pos.y), z)]
      newPosition == [x |-> RSub(x, RMul(zoomPoint.x, newZoom)),
                      y |-> RSub(y, RMul(zoomPoint.y, newZoom))]
      clampedPosition == clampPosition(newPosition, rect.width, rect.height, z)
  IN  [zoom |-> newZoom, position |-> clampedPosition]

\* body of PanExample's handleZoom(delta): the [zoom, position] it sets,
\* computed from the zoom and position of its closure
handleZoom(delta, pos, z, w) ==
  LET rect == getBoundingClientRect(w)
      x == RSub(RDiv(I(w[1]), I(2)), rect.left)
      y == RSub(RDiv(I(w[2]), I(2)), rect.top)
      newZoom == newZoomOf(z, delta)
      zoomPoint == [x |-> RDiv(RSub(x, pos.x), z),
                    y |-> RDiv(RSub(y, pos.y), z)]
      newPosition == [x |-> RSub(x, RMul(zoomPoint.x, newZoom)),
                      y |-> RSub(y, RMul(zoomPoint.y, newZoom))]
      clampedPosition == clampPosition(newPosition, rect.width, rect.height, z)
  IN  [zoom |-> newZoom, position |-> clampedPosition]

\* body of PanExample's onWheel for a ctrl-wheel event
onWheel(deltaY, clientX, clientY, pos, z, w) ==
  LET delta == IF deltaY < 0 THEN ZOOM_STEP ELSE RNeg(ZOOM_STEP)
      rect == getBoundingClientRect(w)
      x == RSub(clientX, rect.left)
      y == RSub(clientY, rect.top)
      newZoom == newZoomOf(z, delta)
      zoomPoint == [x |-> RDiv(RSub(x, pos.x), z),
                    y |-> RDiv(RSub(y, pos.y), z)]
      newPosition == [x |-> RSub(x, RMul(zoomPoint.x, newZoom)),
                      y |-> RSub(y, RMul(zoomPoint.y, newZoom))]
      clampedPosition == clampPosition(newPosition, rect.width, rect.height, z)
  IN  [zoom |-> newZoom, position |-> clampedPosition]

\* the updater PanExample's onDrag passes to setPosition, applied to prev;
\* z is the zoom of the handler's clampPosition
onDrag(dx, dy, prev, z, w) ==
  LET rect == getBoundingClientRect(w)
      newPos == [x |-> RAdd(prev.x, I(dx)), y |-> RAdd(prev.y, I(dy))]
  IN  clampPosition(newPos, rect.width, rect.height, z)

\* DrawingApp: handleZoom(delta) sets only the zoom
DrawingApp_handleZoom(delta, z) == newZoomOf(z, delta)

\* DrawingApp: onWheel for a ctrl-wheel event
DrawingApp_onWheel(deltaY, z) ==
  LET delta == IF deltaY < 0 THEN ZOOM_STEP ELSE RNeg(ZOOM_STEP)
  IN  DrawingApp_handleZoom(delta, z)

\* DrawingApp: the updater onDrag passes to setPosition
DrawingApp_onDrag(dx, dy, prev) ==
  [x |-> RAdd(prev.x, I(dx)), y |-> RAdd(prev.y, I(dy))]

\* DrawingApp: handleResize sets the position to the container's centre
handleResize(w) ==
  LET rect == getBoundingClientRect(w)
  IN  [x |-> RDiv(rect.width, I(2)), y |-> RDiv(rect.height, I(2))]

\* variant: the stage offset is not subtracted
adjustCoordinates_NoOffset(pos, z, x, y) ==
  << RDiv(x, z), RDiv(y, z) >>

\* DrawingApp: pointer position to world coordinates; the stage has
\* x, y = position and scaleX, scaleY = zoom of the render
adjustCoordinates(pos, z, x, y) ==
  LET scaleX == z
      scaleY == z
      offsetX == pos.x
      offsetY == pos.y
  IN  << RDiv(RSub(x, offsetX), scaleX), RDiv(RSub(y, offsetY), scaleY) >>

\* DrawingApp: left, top of the text input overlay for a world point
worldToScreen(pos, z, p) ==
  << RAdd(RMul(p[1], z), pos.x), RAdd(RMul(p[2], z), pos.y) >>

----------------------------------------------------------------------------
(* Initial state *)

NoProbe == [stage |-> "none"]

\* null, and the undefined an array read past its ends gives
null == "null"

\* DrawingApp's shapes state as constructed: the useState initial values
ConstructDrawing ==
  /\ tool = "cursor"
  /\ shapes = << >>
  /\ selectedShapeId = null
  /\ isDrawing = FALSE
  /\ uploads = {}
  /\ now = 0

\* Editor before its effect has run, with nothing stored
ConstructEditor ==
  /\ editorDocument = << >>
  /\ localStorage = << >>

\* ExcelProcessor, WordProcessor as constructed
ConstructViewer ==
  /\ loading = FALSE
  /\ loads = {}

\* FileModal and its parent's fileChanges as constructed
ConstructModal ==
  /\ content = null
  /\ editedContent = null
  /\ isEditing = FALSE
  /\ fileChanges = << >>

ConstructOthers ==
  /\ ConstructDrawing
  /\ ConstructEditor
  /\ ConstructViewer
  /\ ConstructModal

\* a canvas component as constructed
ConstructCanvas ==
  /\ probe = NoProbe
  /\ mounted = FALSE
  /\ win \in WindowSizes
  /\ position = [x |-> I(0), y |-> I(0)]
  /\ zoom = I(1)
  /\ viewport = [left |-> I(0), top |-> I(0), right |-> I(0), bottom |-> I(0)]
  /\ rPosition = [x |-> I(0), y |-> I(0)]
  /\ rZoom = I(1)
  /\ pending = 0
  /\ events = 0

Construct == ConstructOthers /\ ConstructCanvas

Init == app = "PanExample" /\ Construct

----------------------------------------------------------------------------
(* PanExample (and its copies ZoomableCanvas, GithubRepoExplorer's) *)

\* first commit: the ref is attached, then the effect calls updateViewport()
\* and registers it as the resize listener
Mount ==
  /\ app = "PanExample"
  /\ ~mounted
  /\ mounted' = TRUE
  /\ viewport' = updateViewport(rPosition, rZoom, getBoundingClientRect(win))
  /\ UNCHANGED << app, win, position, zoom, rPosition, rZoom, pending, probe >>

\* a ctrl-drag move whose delta [dx, dy] is one of ds
DragBy(ds) ==
  /\ app = "PanExample"
  /\ mounted
  /\ pending < MaxPending
  /\ \E d \in ds :
       position' = onDrag(d[1], d[2], position, rZoom, win)
  /\ pending' = pending + 1
  /\ UNCHANGED << app, mounted, win, zoom, viewport, rPosition, rZoom, probe >>

Drag == DragBy(DragDeltas)

\* a ctrl-wheel notch whose event.deltaY is one of deltaYs, with the pointer at
\* one of the points ps of the container
WheelNotch(deltaYs, ps) ==
  /\ app = "PanExample"
  /\ mounted
  /\ pending < MaxPending
  /\ \E deltaY \in deltaYs, p \in ps :
       LET r == onWheel(deltaY, p[1], p[2], rPosition, rZoom, win)
       IN  /\ Explored(r.position)
           /\ zoom' = r.zoom
           /\ position' = r.position
  /\ pending' = pending + 1
  /\ UNCHANGED << app, mounted, win, viewport, rPosition, rZoom, probe >>

WheelAt(ps) == WheelNotch(WheelDeltaY, ps)

Wheel == WheelAt(Pointers(win))

\* a click on the + button, which the last render left enabled
ZoomInButton ==
  /\ app = "PanExample"
  /\ mounted
  /\ pending < MaxPending
  /\ ~zoomInDisabled(rZoom)
  /\ LET r == handleZoom(ZOOM_STEP, rPosition, rZoom, win)
     IN  /\ Explored(r.position)
         /\ zoom' = r.zoom
         /\ position' = r.position
  /\ pending' = pending + 1
  /\ UNCHANGED << app, mounted, win, viewport, rPosition, rZoom, probe >>

\* a click on the - button, which the last render left enabled
ZoomOutButton ==
  /\ app = "PanExample"
  /\ mounted
  /\ pending < MaxPending
  /\ ~zoomOutDisabled(rZoom)
  /\ LET r == handleZoom(RNeg(ZOOM_STEP), rPosition, rZoom, win)
     IN  /\ Explored(r.position)
         /\ zoom' = r.zoom
         /\ position' = r.position
  /\ pending' = pending + 1
  /\ UNCHANGED << app, mounted, win, viewport, rPosition, rZoom, probe >>

\* variant: position.x is missing from updateViewport's dependencies
Render_PositionXNotADependency ==
  /\ app = "PanExample"
  /\ pending > 0
  /\ rPosition' = position
  /\ rZoom' = zoom
  /\ pending' = 0
  /\ viewport' = IF position.y # rPosition.y \/ zoom # rZoom
                 THEN updateViewport(position, zoom, getBoundingClientRect(win))
                 ELSE viewport
  /\ UNCHANGED << app, mounted, win, position, zoom, probe >>

\* variant: zoom is missing from updateViewport's dependencies
Render_ZoomNotADependency ==
  /\ app = "PanExample"
  /\ pending > 0
  /\ rPosition' = position
  /\ rZoom' = zoom
  /\ pending' = 0
  /\ viewport' = IF position # rPosition
                 THEN updateViewport(position, zoom, getBoundingClientRect(win))
                 ELSE viewport
  /\ UNCHANGED << app, mounted, win, position, zoom, probe >>

\* re-render after queued updates: the closures are rebuilt from the state;
\* updateViewport is rebuilt when position.x, position.y or zoom changed, and
\* then the effect depending on it calls it
Render ==
  /\ app = "PanExample"
  /\ pending > 0
  /\ rPosition' = position
  /\ rZoom' = zoom
  /\ pending' = 0
  /\ viewport' = IF position # rPosition \/ zoom # rZoom
                 THEN updateViewport(position, zoom, getBoundingClientRect(win))
                 ELSE viewport
  /\ UNCHANGED << app, mounted, win, position, zoom, probe >>

\* the window is resized: the registered listener is the updateViewport of the
\* last render
Resize ==
  /\ app = "PanExample"
  /\ mounted
  /\ \E w \in WindowSizes :
       /\ w # win
       /\ win' = w
       /\ viewport' = updateViewport(rPosition, rZoom, getBoundingClientRect(w))
  /\ UNCHANGED << app, mounted, position, zoom, rPosition, rZoom, pending, probe >>

----------------------------------------------------------------------------
(* DrawingApp (and its copy CombinedCanvas) *)

\* first commit: the effect registers handleResize and calls it
DrawingApp_Mount ==
  /\ app = "DrawingApp"
  /\ ~mounted
  /\ mounted' = TRUE
  /\ position' = handleResize(win)
  /\ pending' = pending + 1
  /\ UNCHANGED << app, win, zoom, viewport, rPosition, rZoom, probe >>

\* a ctrl-drag move with the button down
DrawingApp_Drag ==
  /\ app = "DrawingApp"
  /\ mounted
  /\ pending < MaxPending
  /\ \E d \in DragDeltas :
       position' = DrawingApp_onDrag(d[1], d[2], position)
  /\ pending' = pending + 1
  /\ UNCHANGED << app, mounted, win, zoom, viewport, rPosition, rZoom, probe >>

\* a ctrl-wheel notch whose event.deltaY is one of deltaYs
DrawingApp_WheelNotch(deltaYs) ==
  /\ app = "DrawingApp"
  /\ mounted
  /\ pending < MaxPending
  /\ \E deltaY \in deltaYs :
       zoom' = DrawingApp_onWheel(deltaY, rZoom)
  /\ pending' = pending + 1
  /\ UNCHANGED << app, mounted, win, position, viewport, rPosition, rZoom, probe >>

DrawingApp_Wheel == DrawingApp_WheelNotch(WheelDeltaY)

\* a click on the + button
DrawingApp_ZoomInButton ==
  /\ app = "DrawingApp"
  /\ mounted
  /\ pending < MaxPending
  /\ ~zoomInDisabled(rZoom)
  /\ zoom' = DrawingApp_handleZoom(ZOOM_STEP, rZoom)
  /\ pending' = pending + 1
  /\ UNCHANGED << app, mounted, win, position, viewport, rPosition, rZoom, probe >>

\* a click on the - button
DrawingApp_ZoomOutButton ==
  /\ app = "DrawingApp"
  /\ mounted
  /\ pending < MaxPending
  /\ ~zoomOutDisabled(rZoom)
  /\ zoom' = DrawingApp_handleZoom(RNeg(ZOOM_STEP), rZoom)
  /\ pending' = pending + 1
  /\ UNCHANGED << app, mounted, win, position, viewport, rPosition, rZoom, probe >>

\* re-render: the stage and the overlay get the state's position and zoom
DrawingApp_Render ==
  /\ app = "DrawingApp"
  /\ pending > 0
  /\ rPosition' = position
  /\ rZoom' = zoom
  /\ pending' = 0
  /\ UNCHANGED << app, mounted, win, position, zoom, viewport, probe >>

\* the window is resized: handleResize
DrawingApp_Resize ==
  /\ app = "DrawingApp"
  /\ mounted
  /\ pending < MaxPending
  /\ \E w \in WindowSizes :
       /\ w # win
       /\ win' = w
       /\ position' = handleResize(w)
  /\ pending' = pending + 1
  /\ UNCHANGED << app, mounted, zoom, viewport, rPosition, rZoom, probe >>

----------------------------------------------------------------------------
(* Specifications *)

\* one more input event is delivered
Delivered ==
  /\ events < MaxEvents
  /\ events' = events + 1
  /\ UNCHANGED << drawingVars, editorVars, viewerVars, modalVars >>

\* a step that is no input event
Quiet == UNCHANGED << events, drawingVars, editorVars, viewerVars, modalVars >>

\* PanExample under any input events
Next ==
  \/ Mount /\ Quiet
  \/ Drag /\ Delivered
  \/ Wheel /\ Delivered
  \/ ZoomInButton /\ Delivered
  \/ ZoomOutButton /\ Delivered
  \/ Resize /\ Delivered
  \/ Render /\ Quiet

Spec == Init /\ [][Next]_vars

\* DrawingApp under any input events
InitDrawing == app = "DrawingApp" /\ Construct

NextDrawing ==
  \/ DrawingApp_Mount /\ Quiet
  \/ DrawingApp_Drag /\ Delivered
  \/ DrawingApp_Wheel /\ Delivered
  \/ DrawingApp_ZoomInButton /\ Delivered
  \/ DrawingApp_ZoomOutButton /\ Delivered
  \/ DrawingApp_Resize /\ Delivered
  \/ DrawingApp_Render /\ Quiet

SpecDrawing == InitDrawing /\ [][NextDrawing]_vars

\* either component under zoom events only, any number of them; the wheel
\* events of PanExample have the pointer at the container's centre
CentrePointer(w) == { << RDiv(I(w[1]), I(2)), RDiv(I(w[2]), I(2)) >> }

InitZoom == app \in Apps /\ Construct

NextZoom ==
  \/ Mount /\ Quiet
  \/ WheelAt(CentrePointer(win)) /\ Quiet
  \/ ZoomInButton /\ Quiet
  \/ ZoomOutButton /\ Quiet
  \/ Render /\ Quiet
  \/ DrawingApp_Mount /\ Quiet
  \/ DrawingApp_Wheel /\ Quiet
  \/ DrawingApp_ZoomInButton /\ Quiet
  \/ DrawingApp_ZoomOutButton /\ Quiet
  \/ DrawingApp_Render /\ Quiet

SpecZoom == InitZoom /\ [][NextZoom]_vars

\* a render: the step that applies the queued updates.  React renders after
\* the handlers of an event have queued their updates
Rendered == pending > 0 /\ pending' = 0

SpecZoomFair == SpecZoom /\ WF_pending(Rendered)

\* PanExample in an 800 x 600 window under drags of one SPACING along one
\* axis, drags that take the viewport to the edge of the world and beyond it,
\* and wheel notches at the container's centre
GridWindow == << 800, 600 >>

GridDragDeltas ==
  { << 50, 0 >>, << -50, 0 >>, << 0, 50 >>, << 0, -50 >>,
    << -4400, -4400 >>, << -6000, -6000 >> }

InitGrid == Init /\ win = GridWindow

NextGrid ==
  \/ Mount /\ Quiet
  \/ DragBy(GridDragDeltas) /\ Delivered
  \/ WheelAt(CentrePointer(win)) /\ Delivered
  \/ Render /\ Quiet

SpecGrid == InitGrid /\ [][NextGrid]_vars

\* either component under drag and wheel gestures with or without the ctrl key
\* held: the handler returns at once, or goes on as the ctrl-drag and
\* ctrl-wheel actions above
Ignored ==
  UNCHANGED << app, mounted, win, position, zoom, viewport, rPosition, rZoom,
               pending, probe >>

DragGesture(isKeyboardEvent, ctrlKey, down) ==
  \/ /\ app = "PanExample" /\ mounted
     /\ IF onDragGate(isKeyboardEvent, ctrlKey) THEN Drag ELSE Ignored
  \/ /\ app = "DrawingApp" /\ mounted
     /\ IF DrawingApp_onDragGate(ctrlKey, down) THEN DrawingApp_Drag ELSE Ignored

WheelGesture(ctrlKey) ==
  \/ /\ app = "PanExample" /\ mounted
     /\ IF onWheelGate(ctrlKey, TRUE) THEN Wheel ELSE Ignored
  \/ /\ app = "DrawingApp" /\ mounted
     /\ IF onWheelGate(ctrlKey, TRUE) THEN DrawingApp_Wheel ELSE Ignored

NextGesture ==
  \/ Mount /\ Quiet
  \/ DrawingApp_Mount /\ Quiet
  \/ (\E k, c, d \in BOOLEAN : DragGesture(k, c, d)) /\ Delivered
  \/ (\E c \in BOOLEAN : WheelGesture(c)) /\ Delivered
  \/ Render /\ Quiet
  \/ DrawingApp_Render /\ Quiet

SpecGesture == InitZoom /\ [][NextGesture]_vars

\* PanExample's handlers and updateViewport called with or without the
\* container mounted: each tests containerRef.current first
\* null.getBoundingClientRect() throws
Raised ==
  /\ probe' = [stage |-> "TypeError"]
  /\ UNCHANGED << app, mounted, win, position, zoom, viewport, rPosition, rZoom,
                  pending >>

\* updateViewport() past its test of the ref, as the resize listener calls it
updateViewportBody ==
  /\ app = "PanExample"
  /\ mounted
  /\ viewport' = updateViewport(rPosition, rZoom, getBoundingClientRect(win))
  /\ UNCHANGED << app, mounted, win, position, zoom, rPosition, rZoom, pending,
                  probe >>

updateViewportCall ==
  IF containerGate(mounted) THEN (IF mounted THEN updateViewportBody ELSE Raised)
  ELSE Ignored

onDragCall ==
  IF containerGate(mounted) THEN (IF mounted THEN Drag ELSE Raised)
  ELSE Ignored

onWheelCall ==
  IF containerGate(mounted)
  THEN (IF mounted THEN WheelAt(CentrePointer(win)) ELSE Raised)
  ELSE Ignored

handleZoomCall ==
  IF containerGate(mounted)
  THEN (IF mounted THEN ZoomInButton \/ ZoomOutButton ELSE Raised)
  ELSE Ignored

NextCalls ==
  \/ Mount /\ Quiet
  \/ updateViewportCall /\ Delivered
  \/ onDragCall /\ Delivered
  \/ onWheelCall /\ Delivered
  \/ handleZoomCall /\ Delivered
  \/ Render /\ Quiet

SpecCalls == Init /\ [][NextCalls]_vars

\* PanExample, mounted and rendered at some pan and zoom, under
\* RoundTripSteps zoom-in events followed by as many zoom-out events, all with
\* the same anchor: wheel notches with the pointer at probe.anchor, or button
\* clicks when that is the container's centre.  probe keeps the pan and zoom
\* the run started from.
RoundTripSteps == 2

RoundTripPans ==
  { [x |-> I(0), y |-> I(0)], [x |-> I(-6000), y |-> I(-6000)],
    [x |-> I(-120), y |-> I(75)] }

RoundTripZooms == { I(1), Norm(1, 2), Norm(7, 4) }

InitRoundTrip ==
  /\ ConstructOthers
  /\ app = "PanExample"
  /\ mounted = TRUE
  /\ win \in WindowSizes
  /\ pending = 0
  /\ events = 0
  /\ \E a \in Pointers(win), pos \in RoundTripPans, z \in RoundTripZooms :
       /\ position = pos /\ rPosition = pos
       /\ zoom = z /\ rZoom = z
       /\ viewport = updateViewport(pos, z, getBoundingClientRect(win))
       /\ probe = [stage |-> "roundtrip", anchor |-> a, position |-> pos, zoom |-> z]

RoundTripIn ==
  /\ events < RoundTripSteps
  /\ \/ WheelNotch({ d \in WheelDeltaY : d < 0 }, { probe.anchor })
     \/ ZoomInButton /\ { probe.anchor } = CentrePointer(win)
  /\ events' = events + 1
  /\ UNCHANGED << drawingVars, editorVars, viewerVars, modalVars >>

RoundTripOut ==
  /\ events >= RoundTripSteps
  /\ events < 2 * RoundTripSteps
  /\ \/ WheelNotch({ d \in WheelDeltaY : d > 0 }, { probe.anchor })
     \/ ZoomOutButton /\ { probe.anchor } = CentrePointer(win)
  /\ events' = events + 1
  /\ UNCHANGED << drawingVars, editorVars, viewerVars, modalVars >>

NextRoundTrip ==
  \/ RoundTripIn
  \/ RoundTripOut
  \/ Render /\ Quiet

SpecRoundTrip == InitRoundTrip /\ [][NextRoundTrip]_vars

----------------------------------------------------------------------------
(* clampPosition as a function: onDrag's updater applied to chosen arguments,
   and clampPosition applied to its own result *)

ZoomLevels == { Norm(k, 20) : k \in 6..36 }

ProbeWindows == WindowSizes \cup { << 9000, 600 >>, << 9000, 9000 >> }

ProbePans == { -9500, 0 }

ProbeDeltas == { -50000, -6000, 0, 50000 }

InitClamp ==
  /\ ConstructOthers
  /\ app = "PanExample"
  /\ mounted = FALSE
  /\ win = << 800, 600 >>
  /\ position = [x |-> I(0), y |-> I(0)]
  /\ zoom = I(1)
  /\ viewport = [left |-> I(0), top |-> I(0), right |-> I(0), bottom |-> I(0)]
  /\ rPosition = [x |-> I(0), y |-> I(0)]
  /\ rZoom = I(1)
  /\ pending = 0
  /\ events = 0
  /\ \E px \in ProbePans, py \in ProbePans, dx \in ProbeDeltas,
        dy \in ProbeDeltas, z \in ZoomLevels, w \in ProbeWindows :
       probe = [stage |-> "args", prev |-> [x |-> I(px), y |-> I(py)],
                dx |-> dx, dy |-> dy, z |-> z, w |-> w]

ProbeUnchanged ==
  UNCHANGED << app, mounted, win, position, zoom, viewport, rPosition, rZoom,
               pending, events, drawingVars, editorVars, viewerVars,
               modalVars >>

\* setPosition(prev => clampPosition({prev.x + dx, prev.y + dy}, ...))
ClampOnce ==
  /\ probe.stage = "args"
  /\ probe' = [stage |-> "once", prev |-> probe.prev, dx |-> probe.dx,
               dy |-> probe.dy, z |-> probe.z, w |-> probe.w,
               out |-> onDrag(probe.dx, probe.dy, probe.prev, probe.z, probe.w)]
  /\ ProbeUnchanged

\* clampPosition applied to the position it returned
ClampTwice ==
  /\ probe.stage = "once"
  /\ probe' = [stage |-> "twice", prev |-> probe.prev, dx |-> probe.dx,
               dy |-> probe.dy, z |-> probe.z, w |-> probe.w,
               out |-> probe.out,
               again |-> clampPosition(probe.out,
                                       getBoundingClientRect(probe.w).width,
                                       getBoundingClientRect(probe.w).height,
                                       probe.z)]
  /\ ProbeUnchanged

NextClamp ==
  \/ ClampOnce
  \/ ClampTwice

SpecClamp == InitClamp /\ [][NextClamp]_vars

----------------------------------------------------------------------------
(* The pan range of the clamp policy, as the specification states it *)

\* max_pan = W / 4
MaxPan == RDiv(I(WORLD_SIZE), I(4))

\* min_pan = -(W * zoom) + containerSize - W / 4
MinPan(z, containerSize) ==
  RSub(RAdd(RNeg(RMul(I(WORLD_SIZE), z)), I(containerSize)), RDiv(I(WORLD_SIZE), I(4)))

PanWithin(pos, z, w) ==
  /\ RLe(MinPan(z, w[1]), pos.x) /\ RLe(pos.x, MaxPan)
  /\ RLe(MinPan(z, w[2]), pos.y) /\ RLe(pos.y, MaxPan)

\* a ctrl-drag, wheel-zoom or button-zoom step
InputEvent == Drag \/ Wheel \/ ZoomInButton \/ ZoomOutButton

----------------------------------------------------------------------------
(* C1: after every completed ctrl-drag, wheel-zoom or button-zoom event the
   committed pan lies in [min_pan, max_pan] on each axis, min_pan evaluated
   with the zoom that event committed, for every container size with
   min_pan <= max_pan.  The code clamps with the zoom of the handler's
   closure, the zoom before the event. *)
C1_PanWithinAfterEvent ==
  [][ ( /\ InputEvent
        /\ RLe(MinPan(zoom', win[1]), MaxPan)
        /\ RLe(MinPan(zoom', win[2]), MaxPan) )
      => PanWithin(position', zoom', win) ]_vars

----------------------------------------------------------------------------
(* C2: in every reachable state the screen projection of the world rectangle
   [-W/2, W/2] x [-W/2, W/2] under screen = world * zoom + pan overlaps the
   container [0, width] x [0, height] in a non-empty area. *)
WorldOnScreen(pos, z, w) ==
  LET half == RDiv(I(WORLD_SIZE), I(2))
      left   == RAdd(RMul(RNeg(half), z), pos.x)
      right  == RAdd(RMul(half, z), pos.x)
      top    == RAdd(RMul(RNeg(half), z), pos.y)
      bottom == RAdd(RMul(half, z), pos.y)
  IN  /\ RLt(left, I(w[1])) /\ RLt(I(0), right)
      /\ RLt(top, I(w[2])) /\ RLt(I(0), bottom)

C2_WorldOverlapsContainer == mounted => WorldOnScreen(position, zoom, win)

----------------------------------------------------------------------------
(* C3: after any sequence of wheel-zoom and button-zoom events, in PanExample
   and in DrawingApp, MIN_ZOOM <= zoom <= MAX_ZOOM, so zoom > 0 and every
   division by zoom is defined. *)
C3_ZoomInRange ==
  /\ RLe(MIN_ZOOM, zoom) /\ RLe(zoom, MAX_ZOOM) /\ zoom[1] > 0
  /\ RLe(MIN_ZOOM, rZoom) /\ RLe(rZoom, MAX_ZOOM) /\ rZoom[1] > 0

\* a wheel notch was handled with the zoom at its floor, and left it there
C3_Witness ==
  mounted /\ pending = 1 /\ rZoom = MIN_ZOOM /\ zoom = MIN_ZOOM

----------------------------------------------------------------------------
(* C4: after a wheel-zoom with pointer anchor a, from any (pan, zoom) and any
   step direction, (a - pan') / zoom' = (a - pan) / zoom on both axes,
   whenever the clamp does not change the proposed pan.  The handler reads
   pan and zoom from its closure: with an update still queued (C17) it zooms
   about the pan of the last render. *)
\* the pan the handler proposes: anchor - ((anchor - pan) / zoom) * zoom'
ProposedPan(a, pos, z, nz) ==
  [x |-> RSub(a[1], RMul(RDiv(RSub(a[1], pos.x), z), nz)),
   y |-> RSub(a[2], RMul(RDiv(RSub(a[2], pos.y), z), nz))]

\* this step is the wheel event (deltaY, a)
WheelStep(deltaY, a) ==
  /\ app = "PanExample" /\ mounted /\ pending < MaxPending
  /\ zoom' = onWheel(deltaY, a[1], a[2], rPosition, rZoom, win).zoom
  /\ position' = onWheel(deltaY, a[1], a[2], rPosition, rZoom, win).position
  /\ pending' = pending + 1
  /\ events' = events + 1
  /\ UNCHANGED << app, mounted, win, viewport, rPosition, rZoom, probe >>

C4_AnchorFixed ==
  [][ \A deltaY \in WheelDeltaY, a \in Pointers(win) :
        ( /\ WheelStep(deltaY, a)
          /\ position' = ProposedPan(a, rPosition, rZoom, zoom') )
        => /\ RDiv(RSub(a[1], position'.x), zoom') = RDiv(RSub(a[1], position.x), zoom)
           /\ RDiv(RSub(a[2], position'.y), zoom') = RDiv(RSub(a[2], position.y), zoom)
    ]_vars

----------------------------------------------------------------------------
(* C5: clampPosition returns, per axis, min(max_pan, max(min_pan, pan)):
   max_pan when pan or min_pan exceeds it, else min_pan when pan is below
   it, else pan; a drag that would take pan.x above W/4 commits W/4. *)
ClampTo(p, lo, hi) ==
  IF RLt(hi, p) \/ RLt(hi, lo) THEN hi
  ELSE IF RLt(p, lo) THEN lo
  ELSE p

C5_ClampPerAxis ==
  probe.stage \in { "once", "twice" } =>
    /\ probe.out.x = ClampTo(RAdd(probe.prev.x, I(probe.dx)),
                             MinPan(probe.z, probe.w[1]), MaxPan)
    /\ probe.out.y = ClampTo(RAdd(probe.prev.y, I(probe.dy)),
                             MinPan(probe.z, probe.w[2]), MaxPan)
    /\ (RLt(MaxPan, RAdd(probe.prev.x, I(probe.dx))) => probe.out.x = I(2500))

\* the drag to +50000 at zoom 1, container width 800
C5_Witness ==
  /\ probe.stage = "once"
  /\ probe.prev.x = I(0) /\ probe.dx = 50000
  /\ probe.z = I(1) /\ probe.w = << 800, 600 >>
  /\ probe.out.x = I(2500)

----------------------------------------------------------------------------
(* C6: when min_pan > max_pan on an axis, clampPosition returns on that axis
   a value that is the same for every proposed pan. *)
C6_EmptyRangeConstant ==
  probe.stage \in { "once", "twice" } =>
    \A q \in ProbePans \cup ProbeDeltas :
      LET other == clampPosition([x |-> I(q), y |-> I(q)],
                                 getBoundingClientRect(probe.w).width,
                                 getBoundingClientRect(probe.w).height, probe.z)
      IN  /\ (RLt(MaxPan, MinPan(probe.z, probe.w[1])) => other.x = probe.out.x)
          /\ (RLt(MaxPan, MinPan(probe.z, probe.w[2])) => other.y = probe.out.y)

\* the range is empty on the x axis only
C6_Witness ==
  /\ probe.stage = "once"
  /\ RLt(MaxPan, MinPan(probe.z, probe.w[1]))
  /\ ~RLt(MaxPan, MinPan(probe.z, probe.w[2]))
  /\ probe.dx = -50000

----------------------------------------------------------------------------
(* C7: clampPosition(clampPosition(pan)) = clampPosition(pan) for every pan,
   zoom in [MIN_ZOOM, MAX_ZOOM] and container size, also where
   min_pan > max_pan. *)
C7_ClampIdempotent ==
  probe.stage = "twice" => probe.again = probe.out

\* applied twice where the first application changed the pan and the range
\* is empty on an axis
C7_Witness ==
  /\ probe.stage = "twice"
  /\ probe.out.x # RAdd(probe.prev.x, I(probe.dx))
  /\ RLt(MaxPan, MinPan(probe.z, probe.w[1]))

----------------------------------------------------------------------------
(* C8: screenToWorld(worldToScreen(p)) = p for every world point p and every
   (pan, zoom) a render shows: the pointer mapping of the drawing handlers
   inverts the placement of the text overlay. *)
C8_Invertible ==
  \A p \in WorldPoints :
    LET s == worldToScreen(rPosition, rZoom, p)
    IN  adjustCoordinates(rPosition, rZoom, s[1], s[2]) = p

\* a render with a pan moved by a drag and a zoom changed by a wheel notch
C8_Witness ==
  /\ app = "DrawingApp" /\ mounted /\ pending = 0
  /\ rZoom = Norm(21, 20)
  /\ rPosition.x = I(6400)

----------------------------------------------------------------------------
(* C9: after every completed input event and every resize notification (the
   queued updates rendered and the effects run) the stored viewport equals
   updateViewport's rectangle for the current pan, zoom and container size. *)
C9_ViewportInSync ==
  (mounted /\ pending = 0) =>
    viewport = updateViewport(position, zoom, getBoundingClientRect(win))

\* rendered after a zoom, a drag and a resize
C9_Witness ==
  /\ mounted /\ pending = 0 /\ events >= 3
  /\ zoom # I(1) /\ position.x = I(-6000) /\ win = << 3000, 2000 >>

----------------------------------------------------------------------------
(* C10: the stored viewport is the strictly visible world rectangle
   [-pan/zoom, (containerSize - pan)/zoom] expanded on each side by
   (BUFFER_FACTOR - 1)/2 = 1/4 of its own width/height, each edge then limited
   to the world bounds [-5000, 5000]. *)
BufferedVisibleRect(pos, z, w) ==
  LET left   == RDiv(RNeg(pos.x), z)
      right  == RDiv(RSub(I(w[1]), pos.x), z)
      top    == RDiv(RNeg(pos.y), z)
      bottom == RDiv(RSub(I(w[2]), pos.y), z)
      mx == RMul(Norm(1, 4), RSub(right, left))
      my == RMul(Norm(1, 4), RSub(bottom, top))
      AtLeast(v, lo) == IF RLt(v, lo) THEN lo ELSE v
      AtMost(v, hi) == IF RLt(hi, v) THEN hi ELSE v
  IN  [left   |-> AtLeast(RSub(left, mx), I(-5000)),
       top    |-> AtLeast(RSub(top, my), I(-5000)),
       right  |-> AtMost(RAdd(right, mx), I(5000)),
       bottom |-> AtMost(RAdd(bottom, my), I(5000))]

C10_ViewportIsBufferedVisibleRect ==
  (mounted /\ pending = 0) =>
    viewport = BufferedVisibleRect(position, zoom, win)

\* the right edge is limited by the world bound, the top edge is not
C10_Witness ==
  /\ mounted /\ pending = 0 /\ zoom # I(1)
  /\ viewport.right = I(5000)
  /\ viewport.top # I(-5000) /\ viewport.top # I(5000)

----------------------------------------------------------------------------
(* C11: the generated points are exactly the points (x, y) with x and y
   multiples of SPACING, floor(left/50)*50 <= x <= ceil(right/50)*50 and
   floor(top/50)*50 <= y <= ceil(bottom/50)*50 for the stored viewport, each
   point once. *)
Multiples(lo, hi) ==
  { SPACING * k : k \in RFloor(RDiv(lo, I(SPACING))) .. RCeil(RDiv(hi, I(SPACING))) }

Lattice(vp) ==
  { [x |-> x, y |-> y] : x \in Multiples(vp.left, vp.right),
                         y \in Multiples(vp.top, vp.bottom) }

C11_PointsAreTheLattice ==
  LET pts == points(viewport)
  IN  /\ { pts[i] : i \in 1..Len(pts) } = Lattice(viewport)
      /\ Len(pts) = Cardinality(Lattice(viewport))

\* a rendered viewport whose edges are not multiples of SPACING, after a zoom
C11_Witness ==
  /\ mounted /\ pending = 0 /\ zoom = Norm(21, 20)
  /\ viewport.left[2] # 1 /\ viewport.bottom[2] # 1
  /\ Len(points(viewport)) > 100

----------------------------------------------------------------------------
(* C12: in every reachable state the generated points cover the stored
   (buffered, world-limited) viewport rectangle at SPACING granularity: when
   the rectangle is not empty, the smallest generated x is <= left, the
   largest is >= right, likewise for y, consecutive generated coordinates
   differ by exactly SPACING, and every (x, y) of generated coordinates is a
   generated point, so each cell has its four corners. *)
CoversAxis(cs, lo, hi) ==
  /\ \E c \in cs : RLe(I(c), lo)
  /\ \E c \in cs : RLe(hi, I(c))
  /\ \A c \in cs : (\E d \in cs : d > c) => (c + SPACING) \in cs
  /\ \A c, d \in cs : d > c => d >= c + SPACING

C12_GridCoversViewport ==
  LET pts == points(viewport)
      generated == { pts[i] : i \in 1..Len(pts) }
      xs == { q.x : q \in generated }
      ys == { q.y : q \in generated }
  IN  (RLe(viewport.left, viewport.right) /\ RLe(viewport.top, viewport.bottom)) =>
        /\ CoversAxis(xs, viewport.left, viewport.right)
        /\ CoversAxis(ys, viewport.top, viewport.bottom)
        /\ \A x \in xs, y \in ys : [x |-> x, y |-> y] \in generated

\* a rendered, non-empty viewport that the world bound limits on the right and
\* whose left edge is not a multiple of SPACING
C12_Witness ==
  /\ mounted /\ pending = 0
  /\ viewport.right = WORLD_BOUNDS.right
  /\ RLt(viewport.left, viewport.right) /\ RLt(viewport.top, viewport.bottom)
  /\ viewport.left[2] # 1

----------------------------------------------------------------------------
(* C13: a ctrl-drag that changes pan by exactly one SPACING (50) on one axis
   yields, once rendered, a point set equal to the previous set shifted by
   one grid cell on that axis, and a point count within one row or column of
   the previous count. *)
\* the queued update is one drag that moved pan by d = << dx, dy >>
OneDragQueued(d) ==
  /\ mounted /\ pending = 1 /\ zoom = rZoom
  /\ position.x = RAdd(rPosition.x, I(d[1]))
  /\ position.y = RAdd(rPosition.y, I(d[2]))

OneCellDrags == { << 50, 0 >>, << -50, 0 >>, << 0, 50 >>, << 0, -50 >> }

PointSet(vp) ==
  LET pts == points(vp)
  IN  { pts[i] : i \in 1..Len(pts) }

\* the points move with the world: pan + d shows the world d further
ShiftedBy(ps, d) == { [x |-> q.x - d[1], y |-> q.y - d[2]] : q \in ps }

\* points in one column (a drag along x) or one row (a drag along y)
OneLine(ps, d) ==
  IF d[1] # 0 THEN Cardinality({ q.y : q \in ps }) ELSE Cardinality({ q.x : q \in ps })

ShiftsOneCell(d) ==
  LET before == PointSet(viewport)
      after  == PointSet(viewport')
  IN  /\ after = ShiftedBy(before, d)
      /\ Abs(Len(points(viewport')) - Len(points(viewport)))
           <= OneLine(before \cup after, d)

\* the claim as stated, at any zoom and anywhere in the world
C13_OneCellShift ==
  [][ \A d \in OneCellDrags : (OneDragQueued(d) /\ Render) => ShiftsOneCell(d) ]_vars

\* the stored rectangle lies strictly inside the world bounds on the axis of d
InsideWorld(vp, d) ==
  IF d[1] # 0
  THEN RLt(WORLD_BOUNDS.left, vp.left) /\ RLt(vp.right, WORLD_BOUNDS.right)
  ELSE RLt(WORLD_BOUNDS.top, vp.top) /\ RLt(vp.bottom, WORLD_BOUNDS.bottom)

\* amended: at zoom 1 (one screen pixel is one world unit), with the stored
\* rectangle inside the world bounds on that axis before and after
C13_OneCellShiftAtZoomOne ==
  [][ \A d \in OneCellDrags :
        ( /\ OneDragQueued(d) /\ Render
          /\ zoom = I(1)
          /\ InsideWorld(viewport, d) /\ InsideWorld(viewport', d) )
        => ShiftsOneCell(d) ]_vars

\* a rendered drag of -50 along x at zoom 1 after an earlier one: the stored
\* rectangle has moved two cells to the right
C13_Witness ==
  /\ mounted /\ pending = 0 /\ zoom = I(1)
  /\ position = [x |-> I(-100), y |-> I(0)]
  /\ viewport.left = I(-100) /\ viewport.right = I(1100)

----------------------------------------------------------------------------
(* C14: zoom floor.  Repeated zoom-out events (with no more zoom-in events)
   drive zoom to exactly MIN_ZOOM and it stays there; a zoom-out event at
   MIN_ZOOM leaves zoom at MIN_ZOOM; and in every rendered state the - button
   is disabled exactly when zoom <= MIN_ZOOM, the + button exactly when
   zoom >= MAX_ZOOM. *)
ZoomOutEvent ==
  \/ WheelNotch({ d \in WheelDeltaY : d > 0 }, CentrePointer(win))
  \/ ZoomOutButton
  \/ DrawingApp_WheelNotch({ d \in WheelDeltaY : d > 0 })
  \/ DrawingApp_ZoomOutButton

ZoomInEvent ==
  \/ WheelNotch({ d \in WheelDeltaY : d < 0 }, CentrePointer(win))
  \/ ZoomInButton
  \/ DrawingApp_WheelNotch({ d \in WheelDeltaY : d < 0 })
  \/ DrawingApp_ZoomInButton

C14_ZoomFloor ==
  /\ [](pending = 0 =>
          /\ zoomOutDisabled(rZoom) <=> RLe(zoom, MIN_ZOOM)
          /\ zoomInDisabled(rZoom) <=> RLe(MAX_ZOOM, zoom))
  /\ [][ (ZoomOutEvent /\ zoom = MIN_ZOOM /\ rZoom = MIN_ZOOM)
          => zoom' = MIN_ZOOM ]_vars
  /\ ( ([]<><<ZoomOutEvent>>_vars /\ <>[][~ZoomInEvent]_vars)
        => <>[](zoom = MIN_ZOOM) )

\* rendered at the floor after a zoom-out event that left zoom there
C14_Witness ==
  /\ mounted /\ pending = 0 /\ zoom = MIN_ZOOM
  /\ zoomOutDisabled(rZoom) /\ ~zoomInDisabled(rZoom)
  /\ app = "PanExample" /\ position # [x |-> I(0), y |-> I(0)]

----------------------------------------------------------------------------
(* C15: zoom changes by one step of ZOOM_STEP per accepted wheel notch or
   button press, without drift: k zoom-in events followed by k zoom-out events
   at the same anchor, with no zoom bound reached and no clamp intervention,
   restore the original zoom and the original pan.  Two events handled before
   a render both start from the zoom of that render (C17) and count as one
   step. *)
\* zoom after j steps up from z
StepsUp(z, j) == RAdd(z, RMul(I(j), ZOOM_STEP))

\* on the way from probe.zoom up and back no proposed pan is changed by the
\* clamp, whether it uses the zoom before or after the step
NoClampOnPath ==
  \A j \in 0..RoundTripSteps :
    LET pan == ProposedPan(probe.anchor, probe.position, probe.zoom,
                           StepsUp(probe.zoom, j))
    IN  \A i \in { j - 1, j, j + 1 } :
          clampPosition(pan, I(win[1]), I(win[2]), StepsUp(probe.zoom, i)) = pan

C15_NoDrift ==
  ( /\ probe.stage = "roundtrip" /\ pending = 0
    /\ RLe(StepsUp(probe.zoom, RoundTripSteps), MAX_ZOOM)
    /\ NoClampOnPath )
  => /\ (events = RoundTripSteps => zoom = StepsUp(probe.zoom, RoundTripSteps))
     /\ (events = 2 * RoundTripSteps =>
           zoom = probe.zoom /\ position = probe.position)

----------------------------------------------------------------------------
(* C16: a drag event or a wheel event delivered without the ctrl modifier
   held leaves pan, zoom and the stored viewport rectangle unchanged, in
   PanExample and in DrawingApp. *)
C16_NoCtrlNoChange ==
  [][ ( /\ \/ \E k, d \in BOOLEAN : DragGesture(k, FALSE, d)
           \/ WheelGesture(FALSE)
        /\ events' = events + 1 )
      => UNCHANGED << position, zoom, viewport >> ]_vars

\* DrawingApp, rendered once, has been delivered gestures and is still at the
\* pan and zoom of its mount
C16_Witness ==
  /\ app = "DrawingApp" /\ mounted /\ pending = 0 /\ events = 2
  /\ position = handleResize(win) /\ rPosition = position
  /\ zoom = I(1)

----------------------------------------------------------------------------
(* C17: each accepted drag, wheel or button event computes its result from
   the pan and zoom the preceding event committed, also when several events
   are delivered before the component re-renders: a zoom-in event commits
   zoom + ZOOM_STEP (limited to MAX_ZOOM), a zoom-out event zoom - ZOOM_STEP
   (limited to MIN_ZOOM), a drag the pan plus its delta, clamped with the
   current zoom.  The handlers read zoom and position, and clampPosition
   reads zoom, from the closure of the last render. *)
C17_EventSeesPrevious ==
  [][ /\ ( WheelNotch({ d \in WheelDeltaY : d < 0 }, Pointers(win)) \/ ZoomInButton )
          => zoom' = newZoomOf(zoom, ZOOM_STEP)
      /\ ( WheelNotch({ d \in WheelDeltaY : d > 0 }, Pointers(win)) \/ ZoomOutButton )
          => zoom' = newZoomOf(zoom, RNeg(ZOOM_STEP))
      /\ \A d \in DragDeltas :
           ( Drag /\ position' = onDrag(d[1], d[2], position, rZoom, win) )
           => position' = clampPosition([x |-> RAdd(position.x, I(d[1])),
                                         y |-> RAdd(position.y, I(d[2]))],
                                        I(win[1]), I(win[2]), zoom)
    ]_vars

----------------------------------------------------------------------------
(* C18: a button-driven zoom uses the container's centre (width/2, height/2)
   as its anchor, a wheel-driven zoom the pointer position relative to the
   container: the world point under the anchor stays under it, for each
   container size, whenever the event starts from rendered state and the new
   pan is strictly inside the clamp's range. *)
FixedAt(a) ==
  /\ RDiv(RSub(a[1], position'.x), zoom') = RDiv(RSub(a[1], position.x), zoom)
  /\ RDiv(RSub(a[2], position'.y), zoom') = RDiv(RSub(a[2], position.y), zoom)

\* pos is strictly between the limits clampPosition applies with zoom z
StrictlyInside(pos, z, w) ==
  /\ RLt(MinPan(z, w[1]), pos.x) /\ RLt(pos.x, MaxPan)
  /\ RLt(MinPan(z, w[2]), pos.y) /\ RLt(pos.y, MaxPan)

ContainerCentre(w) ==
  << RDiv(getBoundingClientRect(w).width, I(2)),
     RDiv(getBoundingClientRect(w).height, I(2)) >>

----------------------------------------------------------------------------
(* C19: while the container element is not mounted, a viewport
   recomputation, a ctrl-drag, a wheel-zoom and a button-zoom are no-ops: pan,
   zoom and the stored viewport rectangle are unchanged and no error is
   raised. *)
C19_UnmountedNoOp ==
  [][ ( /\ ~mounted
        /\ updateViewportCall \/ onDragCall \/ onWheelCall \/ handleZoomCall
        /\ events' = events + 1 )
      => /\ UNCHANGED << position, zoom, viewport, pending >>
         /\ probe' = NoProbe ]_vars

\* calls have been made and the container is still not mounted
C19_Witness ==
  /\ ~mounted /\ events >= 3 /\ pending = 0 /\ probe = NoProbe
  /\ position = [x |-> I(0), y |-> I(0)] /\ zoom = I(1)
  /\ viewport = [left |-> I(0), top |-> I(0), right |-> I(0), bottom |-> I(0)]

----------------------------------------------------------------------------
(* C20: after a window-resize notification the stored pan lies within
   [min_pan, max_pan] evaluated for the new container size and the current
   zoom (where min_pan <= max_pan), for every resize from any reachable
   state.  The resize listener is updateViewport: it recomputes the stored
   rectangle and does not clamp the pan. *)
C20_PanWithinAfterResize ==
  [][ ( /\ Resize
        /\ RLe(MinPan(zoom', win'[1]), MaxPan)
        /\ RLe(MinPan(zoom', win'[2]), MaxPan) )
      => PanWithin(position', zoom', win') ]_vars

----------------------------------------------------------------------------
(* DrawingApp: the shapes sequence, the selection and the z-order *)

\* shapes created in a run
MaxNow == 3

\* image uploads in flight at once
MaxUploads == 1

\* the tools of the toolbar that are modelled: no pen path, text input or
\* free-hand line is part of the state
ToolTypes == { "cursor", "rectangle", "eraser" }

\* stage.getPointerPosition()
StagePointers == { << 100, 100 >>, << 700, 500 >> }

\* `shape-${Date.now()}` and `image-${Date.now()}`
ShapeIdOf(t) ==
  << "shape-1", "shape-2", "shape-3", "shape-4", "shape-5", "shape-6" >>[t]

ImageIdOf(t) ==
  << "image-1", "image-2", "image-3", "image-4", "image-5", "image-6" >>[t]

Shape(id, type, x, y, width, height) ==
  [id |-> id, type |-> type, x |-> x, y |-> y, width |-> width,
   height |-> height]

\* what reading an array at an index it does not have gives
undefined == Shape("undefined", "undefined", I(0), I(0), I(0), I(0))

\* Array.prototype.findIndex on shape.id === id, 0-based, -1 when none
findIndex(s, id) ==
  IF \E i \in 1..Len(s) : s[i].id = id
  THEN (CHOOSE i \in 1..Len(s) :
          s[i].id = id /\ \A j \in 1..(i - 1) : s[j].id # id) - 1
  ELSE -1

\* s[i] of JavaScript, 0-based
At(s, i) == IF i >= 0 /\ i < Len(s) THEN s[i + 1] ELSE undefined

\* Array.prototype.splice(start, deleteCount, ...items): a negative start
\* counts from the end
splice(s, start, deleteCount, items) ==
  LET from == IF start < 0
              THEN (IF Len(s) + start < 0 THEN 0 ELSE Len(s) + start)
              ELSE (IF start > Len(s) THEN Len(s) ELSE start)
      count == IF deleteCount < 0 THEN 0
               ELSE (IF deleteCount > Len(s) - from THEN Len(s) - from
                     ELSE deleteCount)
  IN  SubSeq(s, 1, from) \o items \o SubSeq(s, from + count + 1, Len(s))

\* if (selectedShapeId): null and the empty string are falsy
Truthy(id) == id # null /\ id # ""

\* variant: the selected shape and the last shape change places
handleMoveToFront_Swap(s, id) ==
  IF Truthy(id)
  THEN LET shapeIndex == findIndex(s, id)
       IN  IF shapeIndex # -1 /\ shapeIndex # Len(s) - 1
           THEN [s EXCEPT ![shapeIndex + 1] = s[Len(s)], ![Len(s)] = s[shapeIndex + 1]]
           ELSE s
  ELSE s

\* handleMoveToFront: the shapes it sets
handleMoveToFront(s, id) ==
  IF Truthy(id)
  THEN LET shapeIndex == findIndex(s, id)
       IN  IF shapeIndex # -1 /\ shapeIndex # Len(s) - 1
           THEN LET shape == At(s, shapeIndex)
                    updatedShapes == splice(s, shapeIndex, 1, << >>)
                IN  updatedShapes \o << shape >>
           ELSE s
  ELSE s

\* handleMoveToBack: the shapes it sets
handleMoveToBack(s, id) ==
  IF Truthy(id)
  THEN LET shapeIndex == findIndex(s, id)
       IN  IF shapeIndex # -1 /\ shapeIndex # 0
           THEN LET shape == At(s, shapeIndex)
                    updatedShapes == splice(s, shapeIndex, 1, << >>)
                IN  << shape >> \o updatedShapes
           ELSE s
  ELSE s

\* handleMoveUp: the shapes it sets
handleMoveUp(s, id) ==
  IF Truthy(id)
  THEN LET shapeIndex == findIndex(s, id)
       IN  IF shapeIndex > 0
           THEN LET shape == At(s, shapeIndex)
                    removed == splice(s, shapeIndex, 1, << >>)
                IN  splice(removed, shapeIndex - 1, 0, << shape >>)
           ELSE s
  ELSE s

\* handleMoveDown: the shapes it sets
handleMoveDown(s, id) ==
  IF Truthy(id)
  THEN LET shapeIndex == findIndex(s, id)
       IN  IF shapeIndex < Len(s) - 1
           THEN LET shape == At(s, shapeIndex)
                    removed == splice(s, shapeIndex, 1, << >>)
                IN  splice(removed, shapeIndex + 1, 0, << shape >>)
           ELSE s
  ELSE s

OnlyDrawing == UNCHANGED << editorVars, viewerVars, modalVars >>

CanvasUnchanged ==
  UNCHANGED << app, mounted, win, position, zoom, viewport, rPosition, rZoom,
               pending, events >>

\* the four reorder handlers called in any state of shapes and
\* selectedShapeId; probe keeps the handler called and the shapes it read
ReorderCall(handler, updatedShapes) ==
  /\ shapes' = updatedShapes
  /\ probe' = [stage |-> handler, shapes |-> shapes]
  /\ UNCHANGED << tool, selectedShapeId, isDrawing, uploads, now >>
  /\ CanvasUnchanged
  /\ OnlyDrawing

MoveToFrontCall ==
  ReorderCall("handleMoveToFront", handleMoveToFront(shapes, selectedShapeId))

MoveToBackCall ==
  ReorderCall("handleMoveToBack", handleMoveToBack(shapes, selectedShapeId))

MoveUpCall ==
  ReorderCall("handleMoveUp", handleMoveUp(shapes, selectedShapeId))

MoveDownCall ==
  ReorderCall("handleMoveDown", handleMoveDown(shapes, selectedShapeId))

\* sequences of at most n shapes with different ids
RECURSIVE ShapeSeqs(_, _)
ShapeSeqs(ids, n) ==
  IF n = 0 THEN { << >> }
  ELSE LET shorter == ShapeSeqs(ids, n - 1)
       IN  shorter \cup
           { Append(s, Shape(id, "rectangle", I(0), I(0), I(100), I(50))) :
               s \in shorter, id \in ids }

DistinctIds(s) == \A i, j \in 1..Len(s) : s[i].id = s[j].id => i = j

\* DrawingApp mounted and rendered, its pan at the container's centre
MountedDrawing ==
  /\ app = "DrawingApp"
  /\ probe = NoProbe
  /\ mounted = TRUE
  /\ win = << 800, 600 >>
  /\ position = handleResize(win)
  /\ rPosition = position
  /\ zoom = I(1)
  /\ rZoom = I(1)
  /\ viewport = [left |-> I(0), top |-> I(0), right |-> I(0), bottom |-> I(0)]
  /\ pending = 0
  /\ events = 0

\* shapes drawn so far, and a selection: null, a shape of the sequence, or a
\* shape the eraser has removed since it was selected
InitReorder ==
  /\ MountedDrawing
  /\ ConstructEditor /\ ConstructViewer /\ ConstructModal
  /\ tool = "cursor"
  /\ isDrawing = FALSE
  /\ uploads = {}
  /\ now = MaxNow + 1
  /\ shapes \in ShapeSeqs({ ShapeIdOf(t) : t \in 1..(MaxNow + 1) }, MaxNow)
  /\ DistinctIds(shapes)
  /\ selectedShapeId \in { null } \cup { ShapeIdOf(t) : t \in 1..(MaxNow + 1) }

NextReorder ==
  \/ MoveToFrontCall
  \/ MoveToBackCall
  \/ MoveUpCall
  \/ MoveDownCall

SpecReorder == InitReorder /\ [][NextReorder]_vars

----------------------------------------------------------------------------
(* Z-order of the shapes *)

Elements(s) == { s[i] : i \in 1..Len(s) }

IsShapeOf(s, id) == \E i \in 1..Len(s) : s[i].id = id

Others(s, id) == SelectSeq(s, LAMBDA e : e.id # id)

SameShapes(s, t) == Len(s) = Len(t) /\ Elements(s) = Elements(t)

\* C21: handleMoveToFront leaves the selected shape last and handleMoveToBack
\* leaves it first; the other shapes keep their order and the shapes are the
\* same ones; nothing changes when the shape is already there or when no
\* shape of the sequence is selected
C21_FrontAndBack ==
  /\ probe.stage = "handleMoveToFront" =>
       IF IsShapeOf(probe.shapes, selectedShapeId)
       THEN /\ shapes[Len(shapes)].id = selectedShapeId
            /\ Others(shapes, selectedShapeId) = Others(probe.shapes, selectedShapeId)
            /\ SameShapes(shapes, probe.shapes)
            /\ probe.shapes[Len(probe.shapes)].id = selectedShapeId
                 => shapes = probe.shapes
       ELSE shapes = probe.shapes
  /\ probe.stage = "handleMoveToBack" =>
       IF IsShapeOf(probe.shapes, selectedShapeId)
       THEN /\ shapes[1].id = selectedShapeId
            /\ Others(shapes, selectedShapeId) = Others(probe.shapes, selectedShapeId)
            /\ SameShapes(shapes, probe.shapes)
            /\ probe.shapes[1].id = selectedShapeId => shapes = probe.shapes
       ELSE shapes = probe.shapes

\* the first of three shapes has been moved to the front
C21_Witness ==
  /\ probe.stage = "handleMoveToFront"
  /\ Len(probe.shapes) = 3
  /\ probe.shapes[1].id = selectedShapeId
  /\ shapes[3].id = selectedShapeId
  /\ shapes # probe.shapes

\* C22: handleMoveUp takes the selected shape one position toward the end of
\* the sequence, the front, where handleMoveToFront puts it and where it is
\* drawn last, and handleMoveDown one position toward the start; a step up
\* that changes nothing has the shape where handleMoveToFront leaves it
C22_StepTowardFront ==
  /\ (probe.stage = "handleMoveUp" /\ IsShapeOf(probe.shapes, selectedShapeId)) =>
       LET i == findIndex(probe.shapes, selectedShapeId)
       IN  /\ findIndex(shapes, selectedShapeId) =
                IF i < Len(probe.shapes) - 1 THEN i + 1 ELSE i
           /\ Others(shapes, selectedShapeId) = Others(probe.shapes, selectedShapeId)
           /\ shapes = probe.shapes
                => shapes = handleMoveToFront(probe.shapes, selectedShapeId)
  /\ (probe.stage = "handleMoveDown" /\ IsShapeOf(probe.shapes, selectedShapeId)) =>
       LET i == findIndex(probe.shapes, selectedShapeId)
       IN  /\ findIndex(shapes, selectedShapeId) = IF i > 0 THEN i - 1 ELSE i
           /\ Others(shapes, selectedShapeId) = Others(probe.shapes, selectedShapeId)

Count(s, e) == Cardinality({ i \in 1..Len(s) : s[i] = e })

Permutation(s, t) ==
  /\ Len(s) = Len(t)
  /\ \A e \in Elements(s) \cup Elements(t) : Count(s, e) = Count(t, e)

ReorderHandlers ==
  { "handleMoveToFront", "handleMoveToBack", "handleMoveUp", "handleMoveDown" }

----------------------------------------------------------------------------
(* DrawingApp: drawing, erasing, selecting and reordering through the page *)

DrawingFrame ==
  /\ CanvasUnchanged
  /\ UNCHANGED probe
  /\ OnlyDrawing

\* the eraser's test of a shape against the adjusted pointer position
eraserHits(shape, ax, ay) ==
  /\ RLe(shape.x, ax)
  /\ RLe(ax, RAdd(shape.x, shape.width))
  /\ RLe(shape.y, ay)
  /\ RLe(ay, RAdd(shape.y, shape.height))

\* the toolbar of the selected shape is rendered
selectedShape == IsShapeOf(shapes, selectedShapeId)

\* a click on a tool button; no button is reached while the mouse button is
\* held down on the stage
SelectTool ==
  /\ ~isDrawing
  /\ \E newTool \in ToolTypes : tool' = newTool
  /\ UNCHANGED << shapes, selectedShapeId, isDrawing, uploads, now >>
  /\ DrawingFrame

\* handleMouseDown on the stage
MouseDown ==
  /\ ~isDrawing
  /\ \E p \in StagePointers :
       LET adjustedPos == adjustCoordinates(rPosition, rZoom, I(p[1]), I(p[2]))
       IN  \/ /\ tool \in { "rectangle", "circle" }
              /\ now < MaxNow
              /\ now' = now + 1
              /\ shapes' = Append(shapes, Shape(ShapeIdOf(now + 1), tool,
                                                adjustedPos[1], adjustedPos[2],
                                                I(0), I(0)))
              /\ isDrawing' = TRUE
              /\ UNCHANGED << tool, selectedShapeId, uploads >>
           \/ /\ tool = "eraser"
              /\ shapes' = SelectSeq(shapes,
                             LAMBDA shape :
                               ~eraserHits(shape, adjustedPos[1], adjustedPos[2]))
              /\ UNCHANGED << tool, selectedShapeId, isDrawing, uploads, now >>
  /\ DrawingFrame

\* handleMouseMove while a rectangle or circle is drawn: the last shape of
\* the sequence gets the pointer's distance as its size
MouseMove ==
  /\ isDrawing
  /\ tool \in { "rectangle", "circle" }
  /\ Len(shapes) > 0
  /\ \E p \in StagePointers :
       LET adjustedPos == adjustCoordinates(rPosition, rZoom, I(p[1]), I(p[2]))
           lastShape == shapes[Len(shapes)]
           newWidth == RSub(adjustedPos[1], lastShape.x)
           newHeight == RSub(adjustedPos[2], lastShape.y)
       IN  shapes' = [shapes EXCEPT ![Len(shapes)] =
                        [lastShape EXCEPT !.width = newWidth,
                                          !.height = newHeight]]
  /\ UNCHANGED << tool, selectedShapeId, isDrawing, uploads, now >>
  /\ DrawingFrame

\* handleMouseUp, also on mouse leave
MouseUp ==
  /\ isDrawing
  /\ isDrawing' = FALSE
  /\ UNCHANGED << tool, shapes, selectedShapeId, uploads, now >>
  /\ DrawingFrame

\* a click on a shape: handleShapeClick, then handleStageClick with a named
\* target
ShapeClick ==
  /\ ~isDrawing
  /\ tool = "cursor"
  /\ \E i \in 1..Len(shapes) : selectedShapeId' = shapes[i].id
  /\ UNCHANGED << tool, shapes, isDrawing, uploads, now >>
  /\ DrawingFrame

\* a click on the stage where no shape is: handleStageClick
StageClick ==
  /\ ~isDrawing
  /\ selectedShapeId' = null
  /\ UNCHANGED << tool, shapes, isDrawing, uploads, now >>
  /\ DrawingFrame

\* the Delete button: handleDeleteShape
DeleteShape ==
  /\ ~isDrawing
  /\ selectedShape
  /\ shapes' = SelectSeq(shapes, LAMBDA shape : shape.id # selectedShapeId)
  /\ selectedShapeId' = null
  /\ UNCHANGED << tool, isDrawing, uploads, now >>
  /\ DrawingFrame

\* one of the four z-order buttons
ReorderButton(updatedShapes) ==
  /\ ~isDrawing
  /\ selectedShape
  /\ shapes' = updatedShapes
  /\ UNCHANGED << tool, selectedShapeId, isDrawing, uploads, now >>
  /\ DrawingFrame

MoveToFrontButton == ReorderButton(handleMoveToFront(shapes, selectedShapeId))

MoveToBackButton == ReorderButton(handleMoveToBack(shapes, selectedShapeId))

MoveUpButton == ReorderButton(handleMoveUp(shapes, selectedShapeId))

MoveDownButton == ReorderButton(handleMoveDown(shapes, selectedShapeId))

InitEdit ==
  /\ MountedDrawing
  /\ ConstructOthers

NextEdit ==
  \/ SelectTool
  \/ MouseDown
  \/ MouseMove
  \/ MouseUp
  \/ ShapeClick
  \/ StageClick
  \/ DeleteShape
  \/ MoveToFrontButton
  \/ MoveToBackButton
  \/ MoveUpButton
  \/ MoveDownButton

SpecEdit == InitEdit /\ [][NextEdit]_vars

\* C27: selectedShapeId is null or the id of a shape of the sequence
C27_SelectionIsAShape ==
  selectedShapeId = null \/ IsShapeOf(shapes, selectedShapeId)

----------------------------------------------------------------------------
(* DrawingApp: image upload *)

\* img.width, img.height of an uploaded image
ImageSize == 64

\* handleImageUpload with a file chosen: reader.onload and img.onload are
\* closures of this render, so they keep this render's shapes
ImageUploadStart ==
  /\ ~isDrawing
  /\ Cardinality(uploads) < MaxUploads
  /\ uploads' = uploads \cup { [shapes |-> shapes] }
  /\ UNCHANGED << tool, shapes, selectedShapeId, isDrawing, now >>
  /\ DrawingFrame

\* img.onload with the pointer over the stage: setShapes([...shapes, newImage])
ImageLoaded ==
  /\ now < MaxNow
  /\ \E upload \in uploads, pos \in StagePointers :
       /\ uploads' = uploads \ { upload }
       /\ shapes' = Append(upload.shapes,
                           Shape(ImageIdOf(now + 1), "image", I(pos[1]),
                                 I(pos[2]), I(ImageSize), I(ImageSize)))
  /\ now' = now + 1
  /\ UNCHANGED << tool, selectedShapeId, isDrawing >>
  /\ DrawingFrame

\* img.onload when the stage has no pointer position: nothing is added
ImageLoadedNoPointer ==
  /\ \E upload \in uploads : uploads' = uploads \ { upload }
  /\ UNCHANGED << tool, shapes, selectedShapeId, isDrawing, now >>
  /\ DrawingFrame

NextUpload ==
  \/ NextEdit
  \/ ImageUploadStart
  \/ ImageLoaded
  \/ ImageLoadedNoPointer

SpecUpload == InitEdit /\ [][NextUpload]_vars

\* C28: the image's load callback appends the image to the shapes as they
\* are when it runs: every shape of that moment stays, in its place
C28_UploadAppends ==
  [][ (Cardinality(uploads') < Cardinality(uploads) /\ now' = now + 1)
      => /\ Len(shapes') = Len(shapes) + 1
         /\ SubSeq(shapes', 1, Len(shapes)) = shapes ]_vars

----------------------------------------------------------------------------
(* Editor: the document and its copy in localStorage *)

\* blocks of a document: id, type, and the text or the url of the block
Block(id, type, text) == [id |-> id, type |-> type, text |-> text]

\* the initialContent of useCreateBlockNote, with the ids the editor gives
initialContent ==
  << Block("i1", "paragraph", "Welcome to this demo!"),
     Block("i2", "paragraph", "Press the '/' key to open the Slash Menu and add a GitHub repository link"),
     Block("i3", "paragraph", "") >>

\* the blocks loadContentFromLocalStorage puts in when nothing is stored
welcomeContent ==
  << Block("w1", "paragraph", "Welcome to this demo!"),
     Block("w2", "paragraph", "Press the '/' key to open the Slash Menu and add a Figma design link"),
     Block("w3", "paragraph", "") >>

\* blocks the user's edits leave in the document
EditedBlocks ==
  { Block("b1", "paragraph", "notes"), Block("b2", "paragraph", ""),
    Block("b3", "figma", "https://figma.com/file/1"),
    Block("b4", "github", "https://github.com/o/r"),
    Block("b5", "heading", "\"Plan\" [1]") }

\* documents after an edit: the editor always keeps at least one block
Documents ==
  { << b >> : b \in EditedBlocks } \cup
  { d \in { << a, b >> : a, b \in EditedBlocks } : d[1] # d[2] }

\* JSON.stringify of a document, as the sequence of the text's tokens
RECURSIVE JSON_stringifyBlocks(_)
JSON_stringifyBlocks(blocks) ==
  IF blocks = << >> THEN << >>
  ELSE << "{", Head(blocks).id, Head(blocks).type, Head(blocks).text, "}" >>
       \o JSON_stringifyBlocks(Tail(blocks))

JSON_stringify(document) == << "[" >> \o JSON_stringifyBlocks(document) \o << "]" >>

\* JSON.parse of such a text
RECURSIVE JSON_parseBlocks(_)
JSON_parseBlocks(tokens) ==
  IF Len(tokens) < 5 THEN << >>
  ELSE << Block(tokens[2], tokens[3], tokens[4]) >>
       \o JSON_parseBlocks(SubSeq(tokens, 6, Len(tokens)))

JSON_parse(text) == JSON_parseBlocks(SubSeq(text, 2, Len(text) - 1))

\* localStorage.setItem and getItem; has: getItem gives a string, not null
setItem(storage, key, value) ==
  [k \in DOMAIN storage \cup { key } |-> IF k = key THEN value ELSE storage[k]]

has(storage, key) == key \in DOMAIN storage

\* editor.replaceBlocks(editor.document, blocks): the document becomes the
\* blocks, which keep their ids
replaceBlocks(document, blocks) == blocks

\* variant: the document is stored under another key
saveContentToLocalStorage_OtherKey(document, storage) ==
  setItem(storage, "editorcontent", JSON_stringify(document))

\* saveContentToLocalStorage: the storage it leaves
saveContentToLocalStorage(document, storage) ==
  setItem(storage, "editorContent", JSON_stringify(document))

\* loadContentFromLocalStorage: the document it leaves; a stored empty
\* string is falsy as null is
loadContentFromLocalStorage(document, storage) ==
  IF has(storage, "editorContent") /\ storage["editorContent"] # << >>
  THEN replaceBlocks(document, JSON_parse(storage["editorContent"]))
  ELSE replaceBlocks(document, welcomeContent)

EditorFrame ==
  /\ CanvasUnchanged
  /\ UNCHANGED << drawingVars, viewerVars, modalVars >>

\* what the browser has stored when the page is opened: nothing, or the
\* document of an earlier visit
StoredBefore ==
  { << >> } \cup { saveContentToLocalStorage(d, << >>) : d \in Documents }

\* the page is opened: the editor is created and its effect loads the
\* stored document, then subscribes handleChange
EditorMount ==
  /\ editorDocument = << >>
  /\ editorDocument' = loadContentFromLocalStorage(initialContent, localStorage)
  /\ UNCHANGED << localStorage, probe >>
  /\ EditorFrame

\* the user edits the document: handleChange saves it
EditorChange ==
  /\ editorDocument # << >>
  /\ \E d \in Documents :
       /\ d # editorDocument
       /\ editorDocument' = d
       /\ localStorage' = saveContentToLocalStorage(d, localStorage)
       /\ probe' = [stage |-> "onChange", document |-> d, changed |-> TRUE]
  /\ EditorFrame

\* the page is reloaded: a new editor, and its effect; probe keeps the
\* document as it was, and whether it had been changed
EditorReload ==
  /\ editorDocument # << >>
  /\ editorDocument' = loadContentFromLocalStorage(initialContent, localStorage)
  /\ probe' = [stage |-> "reload", document |-> editorDocument,
               changed |-> (probe.stage # "none" /\ probe.changed)]
  /\ UNCHANGED localStorage
  /\ EditorFrame

InitEditor ==
  /\ app = "PanExample" /\ ConstructCanvas /\ win = << 800, 600 >>
  /\ ConstructDrawing /\ ConstructViewer /\ ConstructModal
  /\ editorDocument = << >>
  /\ localStorage \in StoredBefore

NextEditor ==
  \/ EditorMount
  \/ EditorChange
  \/ EditorReload

SpecEditor == InitEditor /\ [][NextEditor]_vars

\* C23: a change leaves the whole document, as JSON, under the key
\* editorContent, and a reload after changes leaves the document as the last
\* change left it
C23_ReloadKeepsDocument ==
  /\ probe.stage = "onChange" =>
       /\ has(localStorage, "editorContent")
       /\ localStorage["editorContent"] = JSON_stringify(editorDocument)
  /\ (probe.stage = "reload" /\ probe.changed) => editorDocument = probe.document

\* a two-block document has been changed, stored and loaded again
C23_Witness ==
  /\ probe.stage = "reload"
  /\ probe.changed
  /\ Len(editorDocument) = 2
  /\ editorDocument = probe.document
  /\ editorDocument[2].type = "figma"

----------------------------------------------------------------------------
(* PanExample and DrawingApp side by side: both get the same ctrl-drag and
   ctrl-wheel events, from the same pan, zoom and container size; probe is
   DrawingApp's position and zoom, PanExample's are the variables.  Each
   event finds both components rendered. *)

InitTwin ==
  /\ ConstructOthers
  /\ app = "PanExample"
  /\ mounted = TRUE
  /\ win \in WindowSizes
  /\ position = [x |-> I(0), y |-> I(0)]
  /\ rPosition = position
  /\ zoom = I(1)
  /\ rZoom = I(1)
  /\ viewport = updateViewport(position, zoom, getBoundingClientRect(win))
  /\ pending = 0
  /\ events = 0
  /\ probe = [stage |-> "DrawingApp", position |-> position, zoom |-> zoom]

TwinDrag ==
  /\ pending = 0
  /\ \E d \in GridDragDeltas :
       /\ position' = onDrag(d[1], d[2], position, rZoom, win)
       /\ probe' = [probe EXCEPT
                      !.position = DrawingApp_onDrag(d[1], d[2], probe.position)]
  /\ pending' = 1
  /\ UNCHANGED << app, mounted, win, zoom, viewport, rPosition, rZoom >>
  /\ Delivered

TwinWheel ==
  /\ pending = 0
  /\ \E deltaY \in WheelDeltaY, p \in CentrePointer(win) :
       LET r == onWheel(deltaY, p[1], p[2], rPosition, rZoom, win)
       IN  /\ zoom' = r.zoom
           /\ position' = r.position
           /\ probe' = [probe EXCEPT
                          !.zoom = DrawingApp_onWheel(deltaY, probe.zoom)]
  /\ pending' = 1
  /\ UNCHANGED << app, mounted, win, viewport, rPosition, rZoom >>
  /\ Delivered

NextTwin ==
  \/ TwinDrag
  \/ TwinWheel
  \/ Render /\ Quiet

SpecTwin == InitTwin /\ [][NextTwin]_vars

\* C24: after every event DrawingApp has committed the position and zoom
\* PanExample has
C24_SameViewportMath ==
  probe.stage = "DrawingApp" =>
    /\ probe.position = position
    /\ probe.zoom = zoom

----------------------------------------------------------------------------
\* C25: in every reachable state of PanExample the stored viewport has
\* left <= right and top <= bottom, and the points generated from it are not
\* none
C25_ViewportWellFormed ==
  /\ RLe(viewport.left, viewport.right)
  /\ RLe(viewport.top, viewport.bottom)
  /\ Len(points(viewport)) > 0

----------------------------------------------------------------------------
(* ExcelProcessor and WordProcessor: loading a file from a URL or from disk *)

\* handler calls awaiting their data at once
MaxLoads == 3

\* the url typed, or the name of the file chosen
LoadSources == { "a.xlsx", "b.xlsx", "c.docx", "d.docx" }

ViewerFrame ==
  /\ CanvasUnchanged
  /\ UNCHANGED probe
  /\ UNCHANGED << drawingVars, editorVars, modalVars >>

\* handleUrlSubmit up to its first await; the submit button is disabled
\* while loading
UrlSubmit ==
  /\ ~loading
  /\ Cardinality(loads) < MaxLoads
  /\ \E url \in LoadSources :
       /\ [kind |-> "url", source |-> url] \notin loads
       /\ loads' = loads \cup { [kind |-> "url", source |-> url] }
  /\ loading' = TRUE
  /\ ViewerFrame

\* handleFileUpload with a file chosen, up to its first await; the file
\* input is never disabled
FileUpload ==
  /\ Cardinality(loads) < MaxLoads
  /\ \E file \in LoadSources :
       /\ [kind |-> "file", source |-> file] \notin loads
       /\ loads' = loads \cup { [kind |-> "file", source |-> file] }
  /\ loading' = TRUE
  /\ ViewerFrame

\* the rest of a handler call, once its data has come or failed to:
\* try or catch, then finally { setLoading(false) }
LoadSettled ==
  /\ \E load \in loads : loads' = loads \ { load }
  /\ loading' = FALSE
  /\ ViewerFrame

InitViewer ==
  /\ app = "PanExample" /\ ConstructCanvas /\ win = << 800, 600 >>
  /\ ConstructOthers

NextViewer ==
  \/ UrlSubmit
  \/ FileUpload
  \/ LoadSettled

SpecViewer == InitViewer /\ [][NextViewer]_vars

\* C29: loading is true while a load is in flight, and false when none is
C29_LoadingWhileInFlight ==
  /\ loads # {} => loading
  /\ loads = {} => ~loading

----------------------------------------------------------------------------
(* FileModal of the repository explorer: editing a file's content *)

\* FileChange records kept in a run
MaxChanges == 2

\* the decoded content of the file, and what the Monaco editor holds
FileContents == { "", "a", "ab" }

ModalFrame ==
  /\ CanvasUnchanged
  /\ UNCHANGED << drawingVars, editorVars, viewerVars >>

\* probe keeps the handler called and the state it read
Called(handler) ==
  probe' = [stage |-> handler, content |-> content,
            editedContent |-> editedContent, fileChanges |-> fileChanges]

\* fetchFileContent has the file: setContent, setEditedContent
fetchFileContent ==
  /\ content = null
  /\ \E decodedContent \in FileContents :
       /\ content' = decodedContent
       /\ editedContent' = decodedContent
  /\ Called("fetchFileContent")
  /\ UNCHANGED << isEditing, fileChanges >>
  /\ ModalFrame

\* the Edit button, rendered when not editing
handleEdit ==
  /\ ~isEditing
  /\ isEditing' = TRUE
  /\ Called("handleEdit")
  /\ UNCHANGED << content, editedContent, fileChanges >>
  /\ ModalFrame

\* the Monaco editor's onChange; the editor is rendered once the content is
\* there and takes input when not read-only
handleEditorChange ==
  /\ content # null
  /\ isEditing
  /\ \E value \in FileContents :
       /\ value # editedContent
       /\ editedContent' = (IF Truthy(value) THEN value ELSE "")
  /\ Called("handleEditorChange")
  /\ UNCHANGED << content, isEditing, fileChanges >>
  /\ ModalFrame

\* the Save button, rendered when editing: handleSave, and the parent's
\* handleChangesSaved
handleSave ==
  /\ isEditing
  /\ Len(fileChanges) < MaxChanges
  /\ IF ~Truthy(content) \/ ~Truthy(editedContent)
     THEN UNCHANGED << content, editedContent, isEditing, fileChanges >>
     ELSE /\ fileChanges' =
               fileChanges \o << [path |-> "README.md",
                                  originalContent |-> content,
                                  newContent |-> editedContent] >>
          /\ isEditing' = FALSE
          /\ content' = editedContent
          /\ UNCHANGED editedContent
  /\ Called("handleSave")
  /\ ModalFrame

\* the Cancel button, rendered when editing
handleCancel ==
  /\ isEditing
  /\ editedContent' = content
  /\ isEditing' = FALSE
  /\ Called("handleCancel")
  /\ UNCHANGED << content, fileChanges >>
  /\ ModalFrame

InitModal ==
  /\ app = "PanExample" /\ ConstructCanvas /\ win = << 800, 600 >>
  /\ ConstructOthers

NextModal ==
  \/ fetchFileContent
  \/ handleEdit
  \/ handleEditorChange
  \/ handleSave
  \/ handleCancel

SpecModal == InitModal /\ [][NextModal]_vars

\* C30: Save leaves editing mode and appends one FileChange, from the
\* content before the save to the edited content, and the content is then
\* the edited content; Cancel leaves editing mode, sets editedContent back
\* to content and appends nothing; for every edited content, the empty
\* string too
C30_SaveAndCancel ==
  /\ (probe.stage = "handleSave" /\ probe.content # null) =>
       /\ ~isEditing
       /\ fileChanges = probe.fileChanges \o
                          << [path |-> "README.md",
                              originalContent |-> probe.content,
                              newContent |-> probe.editedContent] >>
       /\ content = probe.editedContent
  /\ probe.stage = "handleCancel" =>
       /\ ~isEditing
       /\ editedContent = probe.content
       /\ fileChanges = probe.fileChanges

====
